---- MODULE Spec2Model ----
(***************************************************************************)
(* Server actions of the invoice dashboard (src/app/lib/actions.ts) and    *)
(* the payload guard of src/app/lib/monitoring.ts.                         *)
(*                                                                         *)
(* Strings that the code inspects character by character (ids, amounts,    *)
(* form values, e-mail addresses) are sequences of one-character strings.  *)
(* Messages the code only produces are TLA+ strings.                       *)
(* An optional value (FormData.get returns null for a missing key) is a    *)
(* record [present, value].                                                *)
(***************************************************************************)
EXTENDS Integers, Sequences, FiniteSets, Bags, TLC

\* ------------------------------------------------------------------------
\* Bounds of the model
\* ------------------------------------------------------------------------
\* rows the handlers ever create, beside the seeded one (ids are never reused)
MaxRows == 1
\* calendar days the clock runs through
MaxDay == 2
\* requests whose handlers are suspended at their await at the same time
MaxInFlight == 2

\* ------------------------------------------------------------------------
\* Characters
\* ------------------------------------------------------------------------
Digits == <<"0", "1", "2", "3", "4", "5", "6", "7", "8", "9">>

DigitSet == {Digits[i] : i \in 1..10}

LowerSet == {"a", "b", "c", "d", "e", "f", "g", "h", "i", "j", "k", "l", "m",
             "n", "o", "p", "q", "r", "s", "t", "u", "v", "w", "x", "y", "z"}

UpperSet == {"A", "B", "C", "D", "E", "F", "G", "H", "I", "J", "K", "L", "M",
             "N", "O", "P", "Q", "R", "S", "T", "U", "V", "W", "X", "Y", "Z"}

HexSet == DigitSet \cup {"a", "b", "c", "d", "e", "f"} \cup {"A", "B", "C", "D", "E", "F"}

AlnumSet == DigitSet \cup LowerSet \cup UpperSet

DigitValue(c) == (CHOOSE i \in 1..10 : Digits[i] = c) - 1

RECURSIVE Str(_)
\* the JavaScript string made of the characters of s
Str(s) == IF s = <<>> THEN "" ELSE Head(s) \o Str(Tail(s))

Repeat(c, n) == [i \in 1..n |-> c]

\* an optional value: what FormData.get(key) returns
Null == [present |-> FALSE, value |-> <<>>]

Some(v) == [present |-> TRUE, value |-> v]

\* ------------------------------------------------------------------------
\* IdSchema = z.string().uuid({ message: 'Invalid ID format.' })
\* ------------------------------------------------------------------------
UuidLen == 36

UuidDashes == {9, 14, 19, 24}

\* the pattern without its end anchor: a well-formed prefix is enough
IsUuidUnanchored(s) ==
    /\ Len(s) >= UuidLen
    /\ \A i \in 1..UuidLen : IF i \in UuidDashes THEN s[i] = "-" ELSE s[i] \in HexSet

\* 8-4-4-4-12 hexadecimal digits separated by dashes, and nothing else
IsUuid(s) ==
    /\ Len(s) = UuidLen
    /\ \A i \in 1..UuidLen : IF i \in UuidDashes THEN s[i] = "-" ELSE s[i] \in HexSet

IdSchemaSafeParse(id) == [success |-> IsUuid(id), data |-> id]

\* ------------------------------------------------------------------------
\* Positions in a sequence
\* ------------------------------------------------------------------------
\* the first position of s holding a character of cs, 0 if there is none
FirstIndex(s, cs) ==
    IF \A i \in 1..Len(s) : s[i] \notin cs THEN 0
    ELSE CHOOSE i \in 1..Len(s) : s[i] \in cs /\ \A j \in 1..(i - 1) : s[j] \notin cs

\* the first and the last position of s holding a character outside cs, 0
\* if there is none
FirstOutside(s, cs) ==
    IF \A i \in 1..Len(s) : s[i] \in cs THEN 0
    ELSE CHOOSE i \in 1..Len(s) : s[i] \notin cs /\ \A j \in 1..(i - 1) : s[j] \in cs

LastOutside(s, cs) ==
    IF \A i \in 1..Len(s) : s[i] \in cs THEN 0
    ELSE CHOOSE i \in 1..Len(s) : s[i] \notin cs /\ \A j \in (i + 1)..Len(s) : s[j] \in cs

\* s from its first character outside cs on
StripStart(s, cs) ==
    IF FirstOutside(s, cs) = 0 THEN <<>> ELSE SubSeq(s, FirstOutside(s, cs), Len(s))

\* s up to its last character outside cs
StripEnd(s, cs) == SubSeq(s, 1, LastOutside(s, cs))

\* ------------------------------------------------------------------------
\* Natural numbers of any size, for the arithmetic of doubles: a sequence of
\* limbs in base BigBase, least significant first, no leading zero limb
\* (<<>> is 0).
\* ------------------------------------------------------------------------
BigBase == 10000

\* the largest power of two below BigBase, and its exponent
ChunkBits == 13

Chunk == 8192

\* a without its leading zero limbs
BigTrim(a) == IF a # <<>> /\ a[Len(a)] = 0 THEN StripEnd(a, {0}) ELSE a

RECURSIVE BigOfInt(_)
BigOfInt(k) == IF k = 0 THEN <<>> ELSE <<k % BigBase>> \o BigOfInt(k \div BigBase)

Limb(a, i) == IF i <= Len(a) THEN a[i] ELSE 0

RECURSIVE BigCmpRange(_, _, _, _)
\* -1, 0 or 1 as limbs lo..hi of a are below, equal to or above those of b:
\* decided by the upper half unless it is the same in both
BigCmpRange(a, b, lo, hi) ==
    IF lo = hi THEN (IF a[lo] < b[lo] THEN -1 ELSE IF a[lo] > b[lo] THEN 1 ELSE 0)
    ELSE IF SubSeq(a, (lo + hi) \div 2 + 1, hi) = SubSeq(b, (lo + hi) \div 2 + 1, hi)
    THEN BigCmpRange(a, b, lo, (lo + hi) \div 2)
    ELSE BigCmpRange(a, b, (lo + hi) \div 2 + 1, hi)

\* -1, 0 or 1 as a is below, equal to or above b
BigCmp(a, b) ==
    IF Len(a) < Len(b) THEN -1
    ELSE IF Len(a) > Len(b) THEN 1
    ELSE IF a = <<>> THEN 0
    ELSE BigCmpRange(a, b, 1, Len(a))

RECURSIVE BigAddRange(_, _, _, _, _)
\* limbs lo..hi of a + b with a carry coming in, and the carry going out:
\* the lower half first, its carry into the upper half
BigAddRange(a, b, lo, hi, carry) ==
    IF lo = hi
    THEN [limbs |-> <<(Limb(a, lo) + Limb(b, lo) + carry) % BigBase>>,
          carry |-> (Limb(a, lo) + Limb(b, lo) + carry) \div BigBase]
    ELSE LET lower == BigAddRange(a, b, lo, (lo + hi) \div 2, carry)
             upper == BigAddRange(a, b, (lo + hi) \div 2 + 1, hi, lower.carry)
         IN  [limbs |-> lower.limbs \o upper.limbs, carry |-> upper.carry]

\* a + b: one limb more than the longer of them has, for the last carry
BigAdd(a, b) ==
    BigTrim(BigAddRange(a, b, 1, 1 + (IF Len(a) > Len(b) THEN Len(a) ELSE Len(b)), 0).limbs)

RECURSIVE BigSubRange(_, _, _, _, _)
\* limbs lo..hi of a - b with a borrow coming in, and the borrow going out
BigSubRange(a, b, lo, hi, borrow) ==
    IF lo = hi
    THEN [limbs |-> <<(a[lo] - Limb(b, lo) - borrow + BigBase) % BigBase>>,
          carry |-> IF a[lo] - Limb(b, lo) - borrow < 0 THEN 1 ELSE 0]
    ELSE LET lower == BigSubRange(a, b, lo, (lo + hi) \div 2, borrow)
             upper == BigSubRange(a, b, (lo + hi) \div 2 + 1, hi, lower.carry)
         IN  [limbs |-> lower.limbs \o upper.limbs, carry |-> upper.carry]

\* a - b, for a >= b
BigSub(a, b) == IF a = <<>> THEN <<>> ELSE BigTrim(BigSubRange(a, b, 1, Len(a), 0).limbs)

RECURSIVE BigMulRange(_, _, _, _, _)
\* limbs lo..hi of a * k with a carry coming in, and the carry going out
BigMulRange(a, k, lo, hi, carry) ==
    IF lo = hi
    THEN [limbs |-> <<(Limb(a, lo) * k + carry) % BigBase>>,
          carry |-> (Limb(a, lo) * k + carry) \div BigBase]
    ELSE LET lower == BigMulRange(a, k, lo, (lo + hi) \div 2, carry)
             upper == BigMulRange(a, k, (lo + hi) \div 2 + 1, hi, lower.carry)
         IN  [limbs |-> lower.limbs \o upper.limbs, carry |-> upper.carry]

\* a * k, for 0 <= k <= 10 * BigBase: the product is below
\* BigBase^(Len(a) + 2), so two limbs more than a has hold the last carry
BigMulSmall(a, k) == BigTrim(BigMulRange(a, k, 1, Len(a) + 2, 0).limbs)

RECURSIVE BigDivFrom(_, _, _, _)
\* the limbs of the quotient from limb i of a down, rem being what the limbs
\* above i left
BigDivFrom(a, k, i, rem) ==
    IF i = 0 THEN <<>>
    ELSE BigDivFrom(a, k, i - 1, (rem * BigBase + a[i]) % k)
         \o <<(rem * BigBase + a[i]) \div k>>

\* a \div k, for 0 < k <= BigBase
BigDivSmall(a, k) == BigTrim(BigDivFrom(a, k, Len(a), 0))

BigIsEven(a) == a = <<>> \/ a[1] % 2 = 0

RECURSIVE BigShiftLeft(_, _)
\* a * 2^n
BigShiftLeft(a, n) ==
    IF n <= 0 \/ a = <<>> THEN a
    ELSE IF n >= 2 * ChunkBits
    THEN BigShiftLeft(BigShiftLeft(a, ChunkBits * (n \div (2 * ChunkBits))),
                      n - ChunkBits * (n \div (2 * ChunkBits)))
    ELSE IF n >= ChunkBits THEN BigShiftLeft(BigMulSmall(a, Chunk), n - ChunkBits)
    ELSE BigShiftLeft(BigMulSmall(a, 2), n - 1)

RECURSIVE BigTimesPow10(_, _)
\* a * 10^n
BigTimesPow10(a, n) ==
    IF n <= 0 \/ a = <<>> THEN a
    ELSE IF n >= 8 THEN BigTimesPow10(BigTimesPow10(a, 4 * (n \div 8)), n - 4 * (n \div 8))
    ELSE IF n >= 4 THEN BigTimesPow10(BigMulSmall(a, BigBase), n - 4)
    ELSE BigTimesPow10(BigMulSmall(a, 10), n - 1)

RECURSIVE BigShiftRight(_, _)
\* a \div 2^n
BigShiftRight(a, n) ==
    IF n <= 0 \/ a = <<>> THEN a
    ELSE IF n >= ChunkBits THEN BigShiftRight(BigDivSmall(a, Chunk), n - ChunkBits)
    ELSE BigShiftRight(BigDivSmall(a, 2), n - 1)

\* ------------------------------------------------------------------------
\* JavaScript numbers: IEEE-754 binary64.  A number is NaN, an infinity, or
\* the finite value (-1)^neg * m * 2^q with m odd (m = 0 and q = 0 for the
\* zeros 0 and -0).  Every double has exactly one such record.
\* ------------------------------------------------------------------------
MantissaBits == 53

MaxExponent == 1023

MinExponent == -1022

NaN == [cls |-> "nan", neg |-> FALSE, m |-> <<>>, q |-> 0]

Infinity(neg) == [cls |-> "inf", neg |-> neg, m |-> <<>>, q |-> 0]

Zero(neg) == [cls |-> "num", neg |-> neg, m |-> <<>>, q |-> 0]

IsNaN(x) == x.cls = "nan"

RECURSIVE Canonical(_, _, _)
\* the record of (-1)^neg * m * 2^q
Canonical(neg, m, q) ==
    IF m = <<>> THEN Zero(neg)
    ELSE IF m[1] % 16 = 0 THEN Canonical(neg, BigDivSmall(m, 16), q + 4)
    ELSE IF BigIsEven(m) THEN Canonical(neg, BigDivSmall(m, 2), q + 1)
    ELSE [cls |-> "num", neg |-> neg, m |-> m, q |-> q]

RECURSIVE Scale(_, _, _)
\* num / den * 2^e rewritten with den <= num < 2 * den: by whole limbs
\* while the lengths differ (2^ChunkBits < BigBase, so no step goes too
\* far), then by chunks of bits, then bit by bit
Scale(num, den, e) ==
    IF Len(den) > Len(num) + 1
    THEN Scale(BigShiftLeft(num, ChunkBits * (Len(den) - Len(num) - 1)), den,
               e - ChunkBits * (Len(den) - Len(num) - 1))
    ELSE IF Len(num) > Len(den) + 1
    THEN Scale(num, BigShiftLeft(den, ChunkBits * (Len(num) - Len(den) - 1)),
               e + ChunkBits * (Len(num) - Len(den) - 1))
    ELSE IF BigCmp(BigMulSmall(num, Chunk), den) <= 0
    THEN Scale(BigMulSmall(num, Chunk), den, e - ChunkBits)
    ELSE IF BigCmp(num, den) < 0 THEN Scale(BigMulSmall(num, 2), den, e - 1)
    ELSE IF BigCmp(num, BigMulSmall(den, 2 * Chunk)) >= 0
    THEN Scale(num, BigMulSmall(den, Chunk), e + ChunkBits)
    ELSE IF BigCmp(num, BigMulSmall(den, 2)) >= 0
    THEN Scale(num, BigMulSmall(den, 2), e + 1)
    ELSE [num |-> num, den |-> den, e |-> e]

\* one more bit of the quotient by den: m doubled plus the bit, and what
\* remains, doubled
NextBit(qr, den) ==
    IF BigCmp(qr.rem, den) >= 0
    THEN [m |-> BigAdd(BigMulSmall(qr.m, 2), <<1>>),
          rem |-> BigMulSmall(BigSub(qr.rem, den), 2)]
    ELSE [m |-> BigMulSmall(qr.m, 2), rem |-> BigMulSmall(qr.rem, 2)]

RECURSIVE MoreBits(_, _, _)
\* p more bits of the quotient by den: zeros once nothing remains
MoreBits(qr, den, p) ==
    IF qr.rem = <<>> THEN [m |-> BigShiftLeft(qr.m, p), rem |-> <<>>]
    ELSE IF p <= 0 THEN qr
    ELSE IF p = 1 THEN NextBit(qr, den)
    ELSE MoreBits(MoreBits(qr, den, p \div 2), den, p - p \div 2)

\* the first p bits m of num / den, for den <= num < 2 * den, and what
\* remains of num, times 2^p
Quotient(num, den, p) == MoreBits([m |-> <<>>, rem |-> num], den, p)

\* round to nearest, ties to even
RoundHalfEven(qr, den) ==
    IF BigCmp(qr.rem, den) > 0 \/ (BigCmp(qr.rem, den) = 0 /\ ~BigIsEven(qr.m))
    THEN BigAdd(qr.m, <<1>>)
    ELSE qr.m

\* the bits a double keeps of a value in [2^e, 2^(e+1)): fewer when subnormal
Precision(e) ==
    IF e >= MinExponent THEN MantissaBits ELSE MantissaBits - (MinExponent - e)

\* m * 2^(e - p + 1) as a double, infinite when it is out of range
Finish(neg, m, e, p) ==
    IF e > MaxExponent \/ (e = MaxExponent /\ m = BigShiftLeft(<<1>>, MantissaBits))
    THEN Infinity(neg)
    ELSE Canonical(neg, m, e - p + 1)

Rounded(neg, s, p) ==
    IF p < 0 THEN Zero(neg)
    ELSE IF s.e > MaxExponent THEN Infinity(neg)
    ELSE Finish(neg, RoundHalfEven(Quotient(s.num, s.den, p), s.den), s.e, p)

\* the double nearest to (-1)^neg * num / den * 2^e
Nearest(neg, num, den, e) ==
    IF num = <<>> THEN Zero(neg)
    ELSE Rounded(neg, Scale(num, den, e), Precision(Scale(num, den, e).e))

\* the double of a whole number k >= 0
FromInteger(k) == Nearest(FALSE, BigOfInt(k), <<1>>, 0)

\* ------------------------------------------------------------------------
\* Number(text): StringToNumber of ECMAScript, which z.coerce.number()
\* applies to the amount field
\* ------------------------------------------------------------------------
\* the white space and line terminators of ECMAScript that a string can
\* hold here: space, tab, line feed, carriage return, form feed, vertical
\* tab (U+000B), no-break space (U+00A0), ogham space mark (U+1680) and the
\* byte order mark (U+FEFF).  The others (U+2000 to U+200A, U+2028, U+2029,
\* U+202F, U+205F, U+3000) cannot be written in a string of this language.
WhiteSpace == {" ", "\t", "\n", "\r", "\f", "", " ", " ", "﻿"}

TrimStart(s) == StripStart(s, WhiteSpace)

TrimEnd(s) == StripEnd(s, WhiteSpace)

Trim(s) == TrimEnd(TrimStart(s))

\* the value of a digit of a literal in radix 2, 8, 10 or 16
CharValue(c) ==
    IF c \in DigitSet THEN DigitValue(c)
    ELSE 9 + (CHOOSE i \in 1..6 : c \in {<<"a", "b", "c", "d", "e", "f">>[i],
                                         <<"A", "B", "C", "D", "E", "F">>[i]})

AllDigits(s) == \A i \in 1..Len(s) : s[i] \in DigitSet

IsRadixDigits(s, radix) ==
    /\ s # <<>>
    /\ \A i \in 1..Len(s) : s[i] \in HexSet /\ CharValue(s[i]) < radix

\* the bits a digit of radix 2, 8 or 16 stands for
RadixBits(radix) == IF radix = 16 THEN 4 ELSE IF radix = 8 THEN 3 ELSE 1

RECURSIVE DigitsToBig(_, _)
\* the whole number whose digits in the radix are s: the first half of the
\* digits, moved up by the length of the second, plus the second half
DigitsToBig(s, radix) ==
    IF s = <<>> THEN <<>>
    ELSE IF Len(s) = 1 THEN BigOfInt(CharValue(s[1]))
    ELSE LET first == DigitsToBig(SubSeq(s, 1, Len(s) \div 2), radix)
             rest == Len(s) - Len(s) \div 2
         IN  BigAdd(IF radix = 10 THEN BigTimesPow10(first, rest)
                    ELSE BigShiftLeft(first, RadixBits(radix) * rest),
                    DigitsToBig(SubSeq(s, Len(s) \div 2 + 1, Len(s)), radix))

RECURSIVE DigitsValue(_)
DigitsValue(s) ==
    IF s = <<>> THEN 0
    ELSE 10 * DigitsValue(SubSeq(s, 1, Len(s) - 1)) + DigitValue(s[Len(s)])

\* decimal orders of magnitude beyond which every literal is infinite or
\* zero: the largest double is below 10^309, and 10^-324 is below half the
\* smallest one
DecimalMax == 309

DecimalMin == -324

\* a double, and the midpoint of two neighbouring doubles, has at most 767
\* significant decimal digits: the digits of a literal after this many
\* decide the nearest double only by being all zero or not
MaxSignificantDigits == 772

\* the ExponentPart after its e: an optional sign and digits
IsExponent(s) ==
    /\ s # <<>>
    /\ IF Head(s) \in {"+", "-"} THEN Tail(s) # <<>> /\ AllDigits(Tail(s))
       ELSE AllDigits(s)

\* the whole number an ExponentPart writes: its sign, and its digits from
\* the first that is not zero
ExponentValue(s) ==
    IF Head(s) = "-" THEN [neg |-> TRUE, digits |-> StripStart(Tail(s), {"0"})]
    ELSE IF Head(s) = "+" THEN [neg |-> FALSE, digits |-> StripStart(Tail(s), {"0"})]
    ELSE [neg |-> FALSE, digits |-> StripStart(s, {"0"})]

\* the digits of the largest integer of this language, 2147483647: an
\* exponent written with more is beyond every integer t below
IntDigits == 10

\* -1, 0 or 1 as the exponent ex is below, equal to or above the integer t:
\* by their signs, or else by the digits of ex and t without its sign
ExponentCmp(ex, t) ==
    IF ex.digits = <<>> THEN (IF t > 0 THEN -1 ELSE IF t = 0 THEN 0 ELSE 1)
    ELSE IF ex.neg /\ t >= 0 THEN -1
    ELSE IF ~ex.neg /\ t < 0 THEN 1
    ELSE (IF ex.neg THEN -1 ELSE 1)
         * (IF Len(ex.digits) > IntDigits THEN 1
            ELSE BigCmp(DigitsToBig(ex.digits, 10), BigOfInt(IF t < 0 THEN -t ELSE t)))

\* an exponent as an integer
ExponentInt(ex) ==
    IF ex.neg THEN -DigitsValue(ex.digits) ELSE DigitsValue(ex.digits)

\* the double nearest to (-1)^neg * ds * 10^k * 10^ex, for digits ds without
\* a zero at either end: the value lies between 10^(n - 1) and 10^n for
\* n = Len(ds) + k + ex.  Of more than MaxSignificantDigits digits the first
\* ones are kept, with a last digit standing for the non-zero rest.
FromDecimal(neg, ds, k, ex) ==
    LET kept == IF Len(ds) > MaxSignificantDigits
                THEN SubSeq(ds, 1, MaxSignificantDigits) \o <<"1">>
                ELSE ds
        x == Len(ds) - Len(kept) + k + ExponentInt(ex)
    IN  IF ds = <<>> THEN Zero(neg)
        ELSE IF ExponentCmp(ex, DecimalMax - Len(ds) - k) > 0 THEN Infinity(neg)
        ELSE IF ExponentCmp(ex, DecimalMin - Len(ds) - k) < 0 THEN Zero(neg)
        ELSE Nearest(neg, BigTimesPow10(DigitsToBig(kept, 10), x),
                     BigTimesPow10(<<1>>, -x), 0)

\* the number written as integer digits ip, a point and fraction digits fp,
\* times ten to the ex
DecimalOf(neg, ip, fp, ex) ==
    IF AllDigits(ip) /\ AllDigits(fp) /\ Len(ip) + Len(fp) > 0
    THEN LET ds == StripStart(ip \o fp, {"0"})
         IN  FromDecimal(neg, StripEnd(ds, {"0"}),
                         Len(ds) - Len(StripEnd(ds, {"0"})) - Len(fp), ex)
    ELSE NaN

Before(s, k) == IF k = 0 THEN s ELSE SubSeq(s, 1, k - 1)

After(s, k) == IF k = 0 THEN <<>> ELSE SubSeq(s, k + 1, Len(s))

\* digits, optionally a point and digits, times ten to the ex
Mantissa(neg, s, ex) ==
    DecimalOf(neg, Before(s, FirstIndex(s, {"."})), After(s, FirstIndex(s, {"."})), ex)

\* StrUnsignedDecimalLiteral with the sign read before it: Infinity, or
\* digits with an optional point and an optional exponent part
StrUnsignedDecimalLiteral(neg, s) ==
    IF s = <<"I", "n", "f", "i", "n", "i", "t", "y">> THEN Infinity(neg)
    ELSE IF FirstIndex(s, {"e", "E"}) # 0 /\ ~IsExponent(After(s, FirstIndex(s, {"e", "E"})))
    THEN NaN
    ELSE Mantissa(neg, Before(s, FirstIndex(s, {"e", "E"})),
                  IF FirstIndex(s, {"e", "E"}) = 0 THEN [neg |-> FALSE, digits |-> <<>>]
                  ELSE ExponentValue(After(s, FirstIndex(s, {"e", "E"}))))

\* more digits than a double and its rounding can hold, in every radix:
\* the digits after this many decide the nearest double only by being all
\* zero or not
MaxRadixDigits == 64

\* the digits after 0x, 0o or 0b: a whole number, which takes no sign.  Of
\* more than MaxRadixDigits digits the first ones are kept, with a last
\* digit standing for the rest.
NonDecimalIntegerLiteral(s, radix) ==
    LET ds == StripStart(s, {"0"})
        kept == IF Len(ds) <= MaxRadixDigits THEN ds
                ELSE SubSeq(ds, 1, MaxRadixDigits)
                     \o <<IF LastOutside(ds, {"0"}) > MaxRadixDigits THEN "1" ELSE "0">>
    IN  IF IsRadixDigits(s, radix)
        THEN Nearest(FALSE, DigitsToBig(kept, radix), <<1>>,
                     RadixBits(radix) * (Len(ds) - Len(kept)))
        ELSE NaN

\* StringNumericLiteral, on text without white space around it
StringNumericLiteral(s) ==
    IF s = <<>> THEN Zero(FALSE)
    ELSE IF Len(s) >= 2 /\ s[1] = "0" /\ s[2] \in {"x", "X", "o", "O", "b", "B"}
    THEN NonDecimalIntegerLiteral(SubSeq(s, 3, Len(s)),
                                  IF s[2] \in {"x", "X"} THEN 16
                                  ELSE IF s[2] \in {"o", "O"} THEN 8
                                  ELSE 2)
    ELSE StrUnsignedDecimalLiteral(Head(s) = "-",
                                   IF Head(s) \in {"+", "-"} THEN Tail(s) ELSE s)

\* amounts whose numbers are read once; the one written with an exponent
\* has a no-break space before it and a space after it
AmountTexts ==
    {<<>>, <<"a", "b", "c">>, <<"0">>, <<"-", "5">>,
     <<"1", "5", ".", "5", "0">>,
     <<"0", ".", "1", "2", "5">>,
     <<"0", ".", "0", "7">>,
     <<" ", "1", ".", "5", "5", "e", "1", " ">>,
     <<"I", "n", "f", "i", "n", "i", "t", "y">>,
     <<"1", "0", "0", "0", "0", "0", "0">>,
     <<"1", "0", "0", "0", "0", "0", "0", ".", "0", "1">>}

\* their numbers, read once
AmountNumbers == {<<s, StringNumericLiteral(Trim(s))>> : s \in AmountTexts}

\* Number(s) for a string s
StringToNumber(s) ==
    IF s \in AmountTexts THEN (CHOOSE p \in AmountNumbers : p[1] = s)[2]
    ELSE StringNumericLiteral(Trim(s))

\* Number(v) for v a string or null: Number(null) is 0
ToNumber(v) == IF ~v.present THEN Zero(FALSE) ELSE StringToNumber(v.value)

\* -1, 0 or 1 as the number x, not NaN, is below, equal to or above the
\* whole number k >= 0
CompareInt(x, k) ==
    IF x.cls = "inf" THEN (IF x.neg THEN -1 ELSE 1)
    ELSE IF x.m = <<>> THEN (IF k = 0 THEN 0 ELSE -1)
    ELSE IF x.neg THEN -1
    ELSE IF x.q >= 0 THEN BigCmp(BigShiftLeft(x.m, x.q), BigOfInt(k))
    ELSE IF BigCmp(BigShiftRight(x.m, -x.q), BigOfInt(k)) < 0 THEN -1
    ELSE 1

\* x > k and x <= k, false of NaN
Gt(x, k) == ~IsNaN(x) /\ CompareInt(x, k) > 0

Lte(x, k) == ~IsNaN(x) /\ CompareInt(x, k) <= 0

\* x * 100 in IEEE-754 arithmetic: the exact product, rounded once
Product100(x) ==
    IF x.cls = "num" THEN Nearest(x.neg, BigMulSmall(x.m, 100), <<1>>, x.q)
    ELSE x

\* the products of the amounts the model submits, computed once
AmountProducts == {<<p[2], Product100(p[2])>> : p \in AmountNumbers}

\* amount * 100
Times100(x) ==
    IF \E p \in AmountProducts : p[1] = x
    THEN (CHOOSE p \in AmountProducts : p[1] = x)[2]
    ELSE Product100(x)

IsInteger(x) == x.cls = "num" /\ x.q >= 0


\* ------------------------------------------------------------------------
\* FormData and the payload guard (monitoring.ts)
\* ------------------------------------------------------------------------
\* a FormData is a function from the keys it holds to their string values
FormGet(formData, key) ==
    IF key \in DOMAIN formData THEN Some(formData[key]) ELSE Null

\* formData.toString(): FormData does not define toString, so this is
\* Object.prototype.toString with the class tag, whatever the entries are
FormDataToString(formData) ==
    <<"[", "o", "b", "j", "e", "c", "t", " ", "F", "o", "r", "m", "D", "a", "t", "a", "]">>

\* new Blob([s]).size: the UTF-8 length of s; every character here is ASCII
BlobSize(s) == Len(s)

DefaultMaxSizeKB == 1

BytesPerKB == 1024

validatePayloadSize(formData, maxSizeKB) ==
    BlobSize(FormDataToString(formData)) <= maxSizeKB * BytesPerKB

\* ------------------------------------------------------------------------
\* FormSchema.omit({ id, date }): CreateInvoice and UpdateInvoice
\* ------------------------------------------------------------------------
PENDING == <<"p", "e", "n", "d", "i", "n", "g">>

PAID == <<"p", "a", "i", "d">>

StatusEnum == {PENDING, PAID}

MaxAmount == 1000000

\* customerId: z.string({ invalid_type_error }).min(1, { message })
CustomerIdIssues(v) ==
    IF ~v.present THEN <<"Please select a customer.">>
    ELSE IF Len(v.value) < 1 THEN <<"Customer ID is required.">>
    ELSE <<>>

\* the checks of a number: .gt(0, { message }).lte(1000000, { message })
NumberIssues(x) ==
    IF IsNaN(x) THEN <<"Expected number, received nan">>
    ELSE (IF Gt(x, 0) THEN <<>> ELSE <<"Please enter an amount greater than $0.">>)
         \o (IF Lte(x, MaxAmount) THEN <<>> ELSE <<"Amount cannot exceed $1,000,000.">>)

\* the lower bound left out
AmountIssuesNoLowerBound(v) ==
    IF IsNaN(ToNumber(v)) THEN <<"Expected number, received nan">>
    ELSE IF Lte(ToNumber(v), MaxAmount) THEN <<>>
    ELSE <<"Amount cannot exceed $1,000,000.">>

\* the checks of the amounts the model submits, made once
AmountChecks == {<<p[1], NumberIssues(p[2])>> : p \in AmountNumbers}

\* amount: z.coerce.number().gt(...).lte(...)
AmountIssues(v) ==
    IF v.present /\ v.value \in AmountTexts
    THEN (CHOOSE p \in AmountChecks : p[1] = v.value)[2]
    ELSE NumberIssues(ToNumber(v))

\* status: z.enum(['pending', 'paid'], { invalid_type_error })
StatusIssues(v) ==
    IF ~v.present THEN <<"Please select an invoice status.">>
    ELSE IF v.value \notin StatusEnum
    THEN <<"Invalid enum value. Expected 'pending' | 'paid', received '"
           \o Str(v.value) \o "'">>
    ELSE <<>>

FieldIssues(raw) ==
    [customerId |-> CustomerIdIssues(raw.customerId),
     amount     |-> AmountIssues(raw.amount),
     status     |-> StatusIssues(raw.status)]

\* the result of safeParse on raw fields with the given issues: success with
\* the typed data, or failure with error.flatten().fieldErrors (only the
\* fields that have issues)
ParseResult(raw, issues) ==
    [success |-> \A f \in DOMAIN issues : issues[f] = <<>>,
     data    |-> [customerId |-> raw.customerId.value,
                  amount     |-> ToNumber(raw.amount),
                  status     |-> raw.status.value],
     errors  |-> [f \in {g \in DOMAIN issues : issues[g] # <<>>} |-> issues[f]]]

InvoiceSafeParse(raw) == ParseResult(raw, FieldIssues(raw))

RawInvoiceFields(formData) ==
    [customerId |-> FormGet(formData, "customerId"),
     amount     |-> FormGet(formData, "amount"),
     status     |-> FormGet(formData, "status")]

\* ------------------------------------------------------------------------
\* The clock: new Date().toISOString().split('T')[0]
\* ------------------------------------------------------------------------
TwoDigits(k) == <<Digits[(k \div 10) + 1], Digits[(k % 10) + 1]>>

\* the instant the handler reads: some time of day d of January 2025 (UTC)
ToISOString(d) ==
    <<"2", "0", "2", "5", "-", "0", "1", "-">> \o TwoDigits(d)
    \o <<"T", "0", "9", ":", "3", "0", ":", "0", "0", ".", "0", "0", "0", "Z">>

\* s.split('T')[0]: the part of s before its first "T" (all of s without one)
SplitT0(s) ==
    LET ts == {i \in 1..Len(s) : s[i] = "T"}
    IN  IF ts = {} THEN s
        ELSE SubSeq(s, 1, (CHOOSE i \in ts : \A j \in ts : i <= j) - 1)

\* ------------------------------------------------------------------------
\* The invoices table: a function from the id of each row to its other
\* columns.  Each statement is atomic; a failed statement changes nothing.
\* ------------------------------------------------------------------------
Row(customer_id, amount, status, date) ==
    [customer_id |-> customer_id, amount |-> amount, status |-> status, date |-> date]

\* INSERT INTO invoices (customer_id, amount, status, date) VALUES (...),
\* the storage layer supplying the id of the new row
SqlInsert(table, newId, customer_id, amount, status, date) ==
    [i \in DOMAIN table \cup {newId} |->
        IF i = newId THEN Row(customer_id, amount, status, date) ELSE table[i]]

\* an UPDATE that forgot its WHERE clause
SqlUpdateAllRows(table, id, customer_id, amount, status) ==
    [i \in DOMAIN table |->
        [table[i] EXCEPT !.customer_id = customer_id, !.amount = amount,
                         !.status = status]]

\* UPDATE invoices SET customer_id, amount, status WHERE id = ...
SqlUpdate(table, id, customer_id, amount, status) ==
    [i \in DOMAIN table |->
        IF i = id
        THEN [table[i] EXCEPT !.customer_id = customer_id, !.amount = amount,
                              !.status = status]
        ELSE table[i]]

\* DELETE FROM invoices WHERE id = ...
SqlDelete(table, id) == [i \in DOMAIN table \ {id} |-> table[i]]

\* ------------------------------------------------------------------------
\* What a handler does: the table it leaves, the outside calls it makes in
\* order, and how it ends.
\* ------------------------------------------------------------------------
InvoicesPath == "/dashboard/invoices"

Call(name, arg) == [call |-> name, arg |-> arg]

NoErrors == <<>>

\* return { message } or return { errors, message }
Return(message, errors) == [kind |-> "return", message |-> message, errors |-> errors]

\* throw new Error(message), or an error passed on to the caller
Throw(message) == [kind |-> "throw", message |-> message, errors |-> NoErrors]

\* redirect(path) ends the handler: control never comes back from it
Redirected(path) == [kind |-> "redirect", message |-> path, errors |-> NoErrors]

\* the handler ran to its end without a return statement
ReturnUndefined == [kind |-> "undefined", message |-> "", errors |-> NoErrors]

Outcome(table, trace, result) == [table |-> table, trace |-> trace, result |-> result]

\* ------------------------------------------------------------------------
\* createInvoice(prevState, formData)
\*   table: the table as the INSERT finds it; dbOk: whether the database
\*   carries out the statement; now: the day on which the handler read the
\*   clock, before it awaited the statement; newId: the id the storage layer
\*   gives the row
\* ------------------------------------------------------------------------
\* the try block and what follows it, for fields that passed validation
\* with a catch block that logs and goes on instead of returning
InsertValidatedFallThrough(table, data, dbOk, date, newId) ==
    Outcome(IF dbOk
            THEN SqlInsert(table, newId, data.customerId, Times100(data.amount),
                           data.status, date)
            ELSE table,
            <<Call("sql", "INSERT"), Call("revalidatePath", InvoicesPath),
              Call("redirect", InvoicesPath)>>,
            Redirected(InvoicesPath))

\* the try block and what follows it, for fields that passed validation
InsertValidated(table, data, dbOk, date, newId) ==
    IF ~dbOk
    THEN Outcome(table, <<Call("sql", "INSERT")>>,
                 Return("Database Error: Failed to Create Invoice.", NoErrors))
    ELSE Outcome(SqlInsert(table, newId, data.customerId, Times100(data.amount),
                           data.status, date),
                 <<Call("sql", "INSERT"), Call("revalidatePath", InvoicesPath),
                   Call("redirect", InvoicesPath)>>,
                 Redirected(InvoicesPath))

\* the handler after its payload guard, given the result of safeParse
CreateParsed(table, validatedFields, dbOk, date, newId) ==
    IF ~validatedFields.success
    THEN Outcome(table, <<>>,
                 Return("Missing Fields. Failed to Create Invoice.",
                        validatedFields.errors))
    ELSE InsertValidated(table, validatedFields.data, dbOk, date, newId)

createInvoice(table, formData, dbOk, now, newId) ==
    IF ~validatePayloadSize(formData, DefaultMaxSizeKB)
    THEN Outcome(table, <<>>, Return("Request payload too large.", NoErrors))
    ELSE CreateParsed(table, InvoiceSafeParse(RawInvoiceFields(formData)), dbOk,
                      SplitT0(ToISOString(now)), newId)

\* ------------------------------------------------------------------------
\* createInvoice(formData), the earlier definition in the same file: the
\* schema has no bounds and no messages, parse throws where safeParse
\* returns, and there is no try/catch around the statement.  It too reads
\* the clock (now) before it awaits the INSERT.
\* ------------------------------------------------------------------------
EarlierParseSucceeds(raw) ==
    /\ raw.customerId.present
    /\ ~IsNaN(ToNumber(raw.amount))
    /\ raw.status.present
    /\ raw.status.value \in StatusEnum

createInvoiceEarlier(table, formData, dbOk, now, newId) ==
    IF ~EarlierParseSucceeds(RawInvoiceFields(formData))
    THEN Outcome(table, <<>>, Throw("ZodError"))
    ELSE IF ~dbOk
    THEN Outcome(table, <<Call("sql", "INSERT")>>, Throw("the error of the database"))
    ELSE Outcome(SqlInsert(table, newId, FormGet(formData, "customerId").value,
                           Times100(ToNumber(FormGet(formData, "amount"))),
                           FormGet(formData, "status").value,
                           SplitT0(ToISOString(now))),
                 <<Call("sql", "INSERT"), Call("revalidatePath", InvoicesPath),
                   Call("redirect", InvoicesPath)>>,
                 Redirected(InvoicesPath))

\* ------------------------------------------------------------------------
\* updateInvoice(id, prevState, formData)
\* ------------------------------------------------------------------------
\* the try block and what follows it, for an id and fields that passed
\* validation
UpdateValidated(table, id, data, dbOk) ==
    IF ~dbOk
    THEN Outcome(table, <<Call("sql", "UPDATE")>>,
                 Return("Database Error: Failed to Update Invoice.", NoErrors))
    ELSE Outcome(SqlUpdate(table, id, data.customerId, Times100(data.amount),
                           data.status),
                 <<Call("sql", "UPDATE"), Call("revalidatePath", InvoicesPath),
                   Call("redirect", InvoicesPath)>>,
                 Redirected(InvoicesPath))

\* the handler after its id check and payload guard, given the results of
\* the two safeParse calls
UpdateParsed(table, validatedId, validatedFields, dbOk) ==
    IF ~validatedFields.success
    THEN Outcome(table, <<>>,
                 Return("Missing Fields. Failed to Update Invoice.",
                        validatedFields.errors))
    ELSE UpdateValidated(table, validatedId.data, validatedFields.data, dbOk)

updateInvoice(table, id, formData, dbOk) ==
    IF ~IdSchemaSafeParse(id).success
    THEN Outcome(table, <<>>, Return("Invalid ID format.", NoErrors))
    ELSE IF ~validatePayloadSize(formData, DefaultMaxSizeKB)
    THEN Outcome(table, <<>>, Return("Request payload too large.", NoErrors))
    ELSE UpdateParsed(table, IdSchemaSafeParse(id),
                      InvoiceSafeParse(RawInvoiceFields(formData)), dbOk)

\* ------------------------------------------------------------------------
\* deleteInvoice(id) and deleteInvoiceAction(id)
\* ------------------------------------------------------------------------
\* a delete that reports an error when no row had the id
DeleteParsedMustExist(table, validatedId, dbOk) ==
    IF ~validatedId.success
    THEN Outcome(table, <<>>, Return("Invalid ID format.", NoErrors))
    ELSE IF ~dbOk \/ validatedId.data \notin DOMAIN table
    THEN Outcome(table, <<Call("sql", "DELETE")>>,
                 Return("Database Error: Failed to Delete Invoice.", NoErrors))
    ELSE Outcome(SqlDelete(table, validatedId.data),
                 <<Call("sql", "DELETE"), Call("revalidatePath", InvoicesPath)>>,
                 Return("Deleted Invoice.", NoErrors))

\* deleteInvoice, given the result of IdSchema.safeParse(id)
DeleteParsed(table, validatedId, dbOk) ==
    IF ~validatedId.success
    THEN Outcome(table, <<>>, Return("Invalid ID format.", NoErrors))
    ELSE IF ~dbOk
    THEN Outcome(table, <<Call("sql", "DELETE")>>,
                 Return("Database Error: Failed to Delete Invoice.", NoErrors))
    ELSE Outcome(SqlDelete(table, validatedId.data),
                 <<Call("sql", "DELETE"), Call("revalidatePath", InvoicesPath)>>,
                 Return("Deleted Invoice.", NoErrors))

deleteInvoice(table, id, dbOk) == DeleteParsed(table, IdSchemaSafeParse(id), dbOk)

\* the throwing variant without its cache invalidation
DeleteActionParsedNoRevalidate(table, validatedId, dbOk) ==
    IF ~validatedId.success
    THEN Outcome(table, <<>>, Throw("Invalid ID format."))
    ELSE IF ~dbOk
    THEN Outcome(table, <<Call("sql", "DELETE")>>,
                 Throw("Database Error: Failed to Delete Invoice."))
    ELSE Outcome(SqlDelete(table, validatedId.data),
                 <<Call("sql", "DELETE")>>, ReturnUndefined)

\* deleteInvoiceAction, given the result of IdSchema.safeParse(id)
DeleteActionParsed(table, validatedId, dbOk) ==
    IF ~validatedId.success
    THEN Outcome(table, <<>>, Throw("Invalid ID format."))
    ELSE IF ~dbOk
    THEN Outcome(table, <<Call("sql", "DELETE")>>,
                 Throw("Database Error: Failed to Delete Invoice."))
    ELSE Outcome(SqlDelete(table, validatedId.data),
                 <<Call("sql", "DELETE"), Call("revalidatePath", InvoicesPath)>>,
                 ReturnUndefined)

deleteInvoiceAction(table, id, dbOk) ==
    DeleteActionParsed(table, IdSchemaSafeParse(id), dbOk)

\* ------------------------------------------------------------------------
\* AuthSchema and authenticate(prevState, formData)
\* ------------------------------------------------------------------------
MaxCredentialLen == 255

MinPasswordLen == 6

LocalSet == AlnumSet \cup {"_", "'", "+", "-", "."}

LastIndex(s, c) == CHOOSE i \in 1..Len(s) : s[i] = c /\ \A j \in (i + 1)..Len(s) : s[j] # c

\* the part before the "@": name characters, not starting with a dot and
\* not ending with a dot or quote
IsLocalPart(local) ==
    /\ Len(local) >= 1
    /\ \A i \in 1..Len(local) : local[i] \in LocalSet
    /\ local[Len(local)] \in AlnumSet \cup {"_", "+", "-"}
    /\ local[1] # "."

\* dot-terminated labels that start with a letter or digit
IsLabels(labels) ==
    \A i \in 1..Len(labels) :
        /\ labels[i] \in AlnumSet \cup {"-", "."}
        /\ (i = 1 \/ labels[i - 1] = ".") => labels[i] \in AlnumSet

IsTopLevel(tld) ==
    /\ Len(tld) >= 2
    /\ \A i \in 1..Len(tld) : tld[i] \in LowerSet \cup UpperSet

\* the part after the "@": labels, then two or more letters
IsDomain(domain) ==
    /\ \E i \in 1..Len(domain) : domain[i] = "."
    /\ IsLabels(SubSeq(domain, 1, LastIndex(domain, ".")))
    /\ IsTopLevel(SubSeq(domain, LastIndex(domain, ".") + 1, Len(domain)))

\* z.string().email(): local part, one "@", domain, and no ".." anywhere
IsEmail(s) ==
    /\ Cardinality({i \in 1..Len(s) : s[i] = "@"}) = 1
    /\ \A i \in 1..(Len(s) - 1) : ~(s[i] = "." /\ s[i + 1] = ".")
    /\ IsLocalPart(SubSeq(s, 1, FirstIndex(s, {"@"}) - 1))
    /\ IsDomain(SubSeq(s, FirstIndex(s, {"@"}) + 1, Len(s)))

\* email: z.string().email().max(255); password: z.string().min(6).max(255)
AuthSchemaSafeParse(raw) ==
    [success |-> /\ raw.email.present
                 /\ IsEmail(raw.email.value)
                 /\ Len(raw.email.value) <= MaxCredentialLen
                 /\ raw.password.present
                 /\ Len(raw.password.value) >= MinPasswordLen
                 /\ Len(raw.password.value) <= MaxCredentialLen]

\* what signIn('credentials', formData) does: it returns, or throws an error
\* that is an AuthError of some type, or some other error
SignInReturns == [threw |-> FALSE, authError |-> FALSE, type |-> ""]

SignInThrows(authError, type) == [threw |-> TRUE, authError |-> authError, type |-> type]

\* the catch block with every AuthError reported as wrong credentials
SignInResultNoSwitch(signIn) ==
    IF ~signIn.threw THEN ReturnUndefined
    ELSE IF signIn.authError THEN Return("Invalid credentials.", NoErrors)
    ELSE Throw(signIn.type)

\* how the handler ends once signIn has returned or thrown
SignInResult(signIn) ==
    IF ~signIn.threw THEN ReturnUndefined
    ELSE IF signIn.authError
    THEN IF signIn.type = "CredentialsSignin"
         THEN Return("Invalid credentials.", NoErrors)
         ELSE Return("Something went wrong.", NoErrors)
    ELSE Throw(signIn.type)

RawCredentials(formData) ==
    [email |-> FormGet(formData, "email"), password |-> FormGet(formData, "password")]

authenticate(formData, signIn) ==
    IF ~AuthSchemaSafeParse(RawCredentials(formData)).success
    THEN Outcome(<<>>, <<>>, Return("Invalid input format.", NoErrors))
    ELSE Outcome(<<>>, <<Call("signIn", "credentials")>>, SignInResult(signIn))

\* ------------------------------------------------------------------------
\* Inputs
\* ------------------------------------------------------------------------
\* a well-formed (version 4) UUID whose free digits are all c
MakeUuid(c) ==
    [i \in 1..UuidLen |->
        IF i \in UuidDashes THEN "-"
        ELSE IF i = 15 THEN "4" ELSE IF i = 20 THEN "8" ELSE c]

\* the id the storage layer gives the k-th row it creates; row 0 is seeded
StorageId(k) == MakeUuid(Digits[k + 1])

SeedId == StorageId(0)

UnknownId == MakeUuid("f")

MalformedIds ==
    {<<"1", "2", "3">>,
     MakeUuid("g"),
     MakeUuid("a") \o <<"'", ";", "-", "-">>}

RequestIds == {StorageId(k) : k \in 0..MaxRows} \cup {UnknownId} \cup MalformedIds

Customer1 == MakeUuid("c")

Customer2 == MakeUuid("d")

\* the amounts submitted on the base form: two that the schema accepts and
\* seven that it rejects
AmountInputs ==
    {Null} \cup {Some(s) : s \in {<<>>, <<"a", "b", "c">>, <<"0">>, <<"-", "5">>,
                                  <<"1", "5", ".", "5", "0">>, <<"0", ".", "0", "7">>,
                                  <<"I", "n", "f", "i", "n", "i", "t", "y">>,
                                  <<"1", "0", "0", "0", "0", "0", "0", ".", "0", "1">>}}

\* an extra field that alone is larger than a kilobyte
PaddingLen == 1100

Padding == Repeat("x", PaddingLen)

\* the FormData holding the given optional values
Present(given) == [k \in {f \in DOMAIN given : given[f].present} |-> given[k].value]

MakeForm(customerId, amount, status, notes) ==
    Present([customerId |-> customerId, amount |-> amount, status |-> status,
             notes |-> notes])

\* the base submission: 15.50 dollars, pending, for the first customer
Base ==
    [customerId |-> Some(Customer1), amount |-> Some(<<"1", "5", ".", "5", "0">>),
     status |-> Some(PENDING), notes |-> Null]

\* the base submission with one field varied, another customer's paid
\* invoice of the largest amount the schema accepts, the base submission
\* oversized, and two submissions with every field wrong
Forms ==
    {Present([Base EXCEPT !.customerId = c]) : c \in {Null, Some(<<>>)}}
    \cup {Present([Base EXCEPT !.amount = a]) : a \in AmountInputs}
    \cup {Present([Base EXCEPT !.status = st]) :
              st \in {Null, Some(<<"d", "r", "a", "f", "t">>)}}
    \cup {MakeForm(Some(Customer2), Some(<<"1", "0", "0", "0", "0", "0", "0">>),
                   Some(PAID), Null),
          Present([Base EXCEPT !.notes = Some(Padding)]),
          MakeForm(Null, Some(<<"a", "b", "c">>), Some(<<"d", "r", "a", "f", "t">>), Null),
          MakeForm(Null, Null, Null, Some(Padding))}

\* the requests for an update: every form for the seeded invoice, another
\* customer's paid invoice for an id no row has, and with each malformed id
\* a valid form, an oversized one and one with every field wrong (the id is
\* looked at before the form is)
UpdateRequests ==
    {<<SeedId, f>> : f \in Forms}
    \cup {<<UnknownId, MakeForm(Some(Customer2),
                                Some(<<"1", "0", "0", "0", "0", "0", "0">>),
                                Some(PAID), Null)>>}
    \cup {<<id, f>> : id \in MalformedIds,
                      f \in {Present(Base),
                             Present([Base EXCEPT !.notes = Some(Padding)]),
                             MakeForm(Null, Some(<<"a", "b", "c">>),
                                      Some(<<"d", "r", "a", "f", "t">>), Null)}}

EmailInputs ==
    {Null, Some(<<>>),
     Some(<<"u", "s", "e", "r", "@", "n", "e", "x", "t", "m", "a", "i", "l", ".", "c", "o", "m">>),
     Some(<<"u", "s", "e", "r", ".", "n", "e", "x", "t", "m", "a", "i", "l", ".", "c", "o", "m">>)}

PasswordInputs ==
    {Null, Some(<<"1", "2", "3">>), Some(<<"1", "2", "3", "4", "5", "6">>),
     Some(Repeat("p", MaxCredentialLen + 1))}

LoginForms ==
    {Present([email |-> e, password |-> p]) : e \in EmailInputs, p \in PasswordInputs}

SignInOutcomes ==
    {SignInReturns,
     SignInThrows(TRUE, "CredentialsSignin"),
     SignInThrows(TRUE, "CallbackRouteError"),
     SignInThrows(FALSE, "NEXT_REDIRECT")}

\* ------------------------------------------------------------------------
\* The state machine.
\*
\* Requests are served concurrently.  A handler runs without interruption
\* from its first line to its first await, or to its end when it returns
\* before any await (a failed guard or validation): that is its action.
\* At the await (actions.ts:29, 119, 181, 204, 221, 247) it yields: it is in
\* flight, awaiting the answer.  The database then carries out or refuses
\* the statement, one statement at a time (SqlAnswers), and later the
\* handler resumes and runs to its end (Resume).  Between these steps other
\* handlers enter, other statements are executed, other handlers end, and
\* midnight passes.
\*
\*   invoices, nextRow: the table and the storage layer's id counter
\*   day:               the calendar day (UTC)
\*   inFlight:          the bag of the requests whose handler has yielded
\*   last:              the step a handler has just taken, for the
\*                      properties to look at: the statement just executed
\*                      with the table before and after it, or the handler
\*                      just ended with all its calls, its result and the
\*                      table it ended on.  It is a record of what happened
\*                      and no part of the program: Observed clears it
\*                      before the next step of a handler, which changes
\*                      nothing else, so that every interleaving of the
\*                      steps of the requests in flight is a behaviour.
\* ------------------------------------------------------------------------
VARIABLES invoices, nextRow, day, inFlight, last

vars == <<invoices, nextRow, day, inFlight, last>>

\* the table as seeded before the application starts: one invoice of an
\* earlier day, 15.50 dollars held as 1550 cents
SeedDate == <<"2", "0", "2", "4", "-", "1", "2", "-", "3", "1">>

SeedTable ==
    SqlInsert(<<>>, SeedId, Customer1, FromInteger(1550), PENDING, SeedDate)

\* a request whose handler has yielded; now: the day on which the handler
\* read the clock, 0 when it reads none; dbOk: whether the database carried
\* out the statement, once it has answered
Request(op, id, form, now) ==
    [op |-> op, id |-> id, form |-> form, now |-> now, stage |-> "awaiting",
     dbOk |-> TRUE]

\* a step of the handler of request r; stage: "executed" when its statement
\* was just answered, "ended" when the handler just ended
Invocation(r, stage, dbOk, signIn, before, outcome) ==
    [op |-> r.op, id |-> r.id, form |-> r.form, now |-> r.now, stage |-> stage,
     dbOk |-> dbOk, signIn |-> signIn, before |-> before,
     after |-> outcome.table, trace |-> outcome.trace, result |-> outcome.result]

NoInvocation ==
    Invocation(Request("none", <<>>, <<>>, 0), "none", TRUE, SignInReturns,
               <<>>, Outcome(<<>>, <<>>, ReturnUndefined))

Calls(trace, name) == {i \in 1..Len(trace) : trace[i].call = name}

\* whether the handler reaches its await
Contacted(outcome, name) == Calls(outcome.trace, name) # {}

\* the handler of request r, run on a table with the answer of the database
Run(r, table, dbOk, newId) ==
    IF r.op = "createInvoice" THEN createInvoice(table, r.form, dbOk, r.now, newId)
    ELSE IF r.op = "createInvoiceEarlier"
    THEN createInvoiceEarlier(table, r.form, dbOk, r.now, newId)
    ELSE IF r.op = "updateInvoice" THEN updateInvoice(table, r.id, r.form, dbOk)
    ELSE IF r.op = "deleteInvoice" THEN deleteInvoice(table, r.id, dbOk)
    ELSE deleteInvoiceAction(table, r.id, dbOk)

Init ==
    /\ invoices = SeedTable
    /\ nextRow = 1
    /\ day = 1
    /\ inFlight = EmptyBag
    /\ last = NoInvocation

\* the handler of request r, entered, runs to its await, where it yields,
\* or to its end when it has none to reach (o: what it does then)
Enter(r, o, awaits) ==
    /\ IF awaits
       THEN /\ inFlight' = inFlight (+) SetToBag({r})
            /\ last' = last
       ELSE /\ inFlight' = inFlight
            /\ last' = Invocation(r, "ended", TRUE, SignInReturns, invoices,
                                  [o EXCEPT !.table = invoices])
    /\ UNCHANGED <<invoices, nextRow, day>>

\* createInvoice(prevState, formData) up to await sql (actions.ts:84-119):
\* the guard, the validation and the reading of the clock
CreateInvoice ==
    /\ last.op = "none"
    /\ BagCardinality(inFlight) < MaxInFlight
    /\ nextRow <= MaxRows
    /\ \E formData \in Forms :
          \E o \in {createInvoice(invoices, formData, TRUE, day, StorageId(nextRow))} :
              Enter(Request("createInvoice", <<>>, formData,
                            IF Contacted(o, "sql") THEN day ELSE 0),
                    o, Contacted(o, "sql"))

\* createInvoice(formData), the earlier definition, up to await sql
\* (actions.ts:18-29): parse and the reading of the clock.  It is submitted
\* the base form with 15.50 and with 0.07 dollars (which both schemas
\* accept), with -5 dollars (which only the earlier schema accepts) and with
\* an amount that is no number (which neither accepts).
CreateInvoiceEarlier ==
    /\ last.op = "none"
    /\ BagCardinality(inFlight) < MaxInFlight
    /\ nextRow <= MaxRows
    /\ \E formData \in {Present([Base EXCEPT !.amount = Some(a)]) :
                            a \in {<<"1", "5", ".", "5", "0">>, <<"0", ".", "0", "7">>,
                                   <<"-", "5">>, <<"a", "b", "c">>}} :
          \E o \in {createInvoiceEarlier(invoices, formData, TRUE, day,
                                         StorageId(nextRow))} :
              Enter(Request("createInvoiceEarlier", <<>>, formData,
                            IF Contacted(o, "sql") THEN day ELSE 0),
                    o, Contacted(o, "sql"))

\* updateInvoice(id, prevState, formData) up to await sql (actions.ts:140-181)
UpdateInvoice ==
    /\ last.op = "none"
    /\ BagCardinality(inFlight) < MaxInFlight
    /\ \E u \in UpdateRequests :
        \E o \in {updateInvoice(invoices, u[1], u[2], TRUE)} :
            Enter(Request("updateInvoice", u[1], u[2], 0), o, Contacted(o, "sql"))

\* deleteInvoice(id) up to await sql (actions.ts:196-204)
DeleteInvoice ==
    /\ last.op = "none"
    /\ BagCardinality(inFlight) < MaxInFlight
    /\ \E id \in RequestIds :
        \E o \in {deleteInvoice(invoices, id, TRUE)} :
            Enter(Request("deleteInvoice", id, <<>>, 0), o, Contacted(o, "sql"))

\* deleteInvoiceAction(id) up to await sql (actions.ts:213-221)
DeleteInvoiceAction ==
    /\ last.op = "none"
    /\ BagCardinality(inFlight) < MaxInFlight
    /\ \E id \in RequestIds :
        \E o \in {deleteInvoiceAction(invoices, id, TRUE)} :
            Enter(Request("deleteInvoiceAction", id, <<>>, 0), o,
                  Contacted(o, "sql"))

\* authenticate(prevState, formData) up to await signIn (actions.ts:229-247)
Authenticate ==
    /\ last.op = "none"
    /\ BagCardinality(inFlight) < MaxInFlight
    /\ \E formData \in LoginForms :
        \E o \in {authenticate(formData, SignInReturns)} :
            Enter(Request("authenticate", <<>>, formData, 0), o,
                  Contacted(o, "signIn"))

\* the database answers the statement of a handler that awaits it: it
\* carries the statement out on the table as it now is, or refuses it
SqlAnswers ==
    /\ last.op = "none"
    /\ \E r \in BagToSet(inFlight), dbOk \in BOOLEAN :
          /\ r.stage = "awaiting"
          /\ r.op # "authenticate"
          /\ (dbOk /\ r.op \in {"createInvoice", "createInvoiceEarlier"})
             => nextRow <= MaxRows
          /\ \E o \in {Run(r, invoices, dbOk, StorageId(nextRow))} :
                 /\ invoices' = o.table
                 /\ nextRow' = IF StorageId(nextRow) \in DOMAIN o.table
                               THEN nextRow + 1 ELSE nextRow
                 /\ last' = Invocation(r, "executed", dbOk, SignInReturns, invoices,
                                       Outcome(o.table, SubSeq(o.trace, 1, 1),
                                               [ReturnUndefined EXCEPT
                                                   !.kind = "pending"]))
          /\ inFlight' = (inFlight (-) SetToBag({r}))
                         (+) SetToBag({[r EXCEPT !.stage = "answered",
                                                 !.dbOk = dbOk]})
    /\ UNCHANGED day

\* a handler resumes after its await and runs to its end: what follows the
\* statement it awaited (revalidatePath, redirect, return, the catch block),
\* or what follows signIn, which has returned or thrown
Resume ==
    /\ last.op = "none"
    /\ \E r \in BagToSet(inFlight), signIn \in SignInOutcomes :
          /\ IF r.op = "authenticate" THEN r.stage = "awaiting"
             ELSE r.stage = "answered" /\ signIn = SignInReturns
          /\ \E o \in {IF r.op = "authenticate" THEN authenticate(r.form, signIn)
                       ELSE Run(r, invoices, r.dbOk, StorageId(nextRow))} :
                 last' = Invocation(r, "ended", r.dbOk, signIn, invoices,
                                    [o EXCEPT !.table = invoices])
          /\ inFlight' = inFlight (-) SetToBag({r})
    /\ UNCHANGED <<invoices, nextRow, day>>

\* the step just taken has been looked at
Observed ==
    /\ last.op # "none"
    /\ last' = NoInvocation
    /\ UNCHANGED <<invoices, nextRow, day, inFlight>>

\* midnight (UTC) passes, whatever the requests are doing
Tick ==
    /\ day < MaxDay
    /\ day' = day + 1
    /\ UNCHANGED <<invoices, nextRow, inFlight, last>>

Next ==
    \/ CreateInvoice
    \/ CreateInvoiceEarlier
    \/ UpdateInvoice
    \/ DeleteInvoice
    \/ DeleteInvoiceAction
    \/ Authenticate
    \/ SqlAnswers
    \/ Resume
    \/ Observed
    \/ Tick

Spec == Init /\ [][Next]_vars

\* ------------------------------------------------------------------------
\* Vocabulary of the properties, stated on the submitted values themselves
\* ------------------------------------------------------------------------
InvoiceOps == {"createInvoice", "updateInvoice"}

RECURSIVE SumLen(_, _)
SumLen(form, keys) ==
    IF keys = {} THEN 0
    ELSE LET k == CHOOSE x \in keys : TRUE
         IN  Len(form[k]) + SumLen(form, keys \ {k})

\* bytes of the submitted values: no serialization of the form is smaller
SerializedSize(form) == SumLen(form, DOMAIN form)

Oversized(form) == SerializedSize(form) > DefaultMaxSizeKB * BytesPerKB

\* the submitted dollar amount as a number
Dollars(form) == ToNumber(FormGet(form, "amount"))

AmountOffends(form) ==
    \/ IsNaN(Dollars(form))
    \/ ~Gt(Dollars(form), 0)
    \/ ~Lte(Dollars(form), MaxAmount)

CustomerOffends(form) ==
    "customerId" \notin DOMAIN form \/ form["customerId"] = <<>>

StatusOffends(form) ==
    "status" \notin DOMAIN form \/ form["status"] \notin {PENDING, PAID}

OffendingFields(form) ==
    {f \in {"customerId", "amount", "status"} :
        \/ f = "customerId" /\ CustomerOffends(form)
        \/ f = "amount" /\ AmountOffends(form)
        \/ f = "status" /\ StatusOffends(form)}

\* the statement of the handler was just answered; the handler just ended
Executed == last.stage = "executed"

Ended == last.stage = "ended"

\* the handler ended without a call, on the table it was entered on
NoMutation ==
    /\ Ended
    /\ last.trace = <<>>
    /\ last.after = last.before
    /\ invoices = last.before

\* ------------------------------------------------------------------------
\* C1: an update or delete whose id is not a well-formed UUID fails with
\* "Invalid ID format." (returned by updateInvoice and deleteInvoice, thrown
\* by deleteInvoiceAction) and makes no database call, no cache
\* invalidation and no redirect, whatever the table holds and whether the
\* form is valid, oversized or wrong in every field.
\* ------------------------------------------------------------------------
C1_MalformedIdRejected ==
    (last.op \in {"updateInvoice", "deleteInvoice", "deleteInvoiceAction"}
        /\ last.id \in MalformedIds)
    => /\ last.result.message = "Invalid ID format."
       /\ last.result.kind = IF last.op = "deleteInvoiceAction" THEN "throw" ELSE "return"
       /\ last.result.errors = NoErrors
       /\ NoMutation

\* an update with a well-formed submission, a table that has rows, and an id
\* that is a UUID followed by more text
C1_Witness ==
    /\ last.op = "updateInvoice"
    /\ last.id = MakeUuid("a") \o <<"'", ";", "-", "-">>
    /\ OffendingFields(last.form) = {}
    /\ DOMAIN last.before # {}
    /\ last.result.message = "Invalid ID format."

\* ------------------------------------------------------------------------
\* C2: a create or update submission (with a well-formed id) whose form is
\* larger than the threshold is refused by validatePayloadSize, so that the
\* handler returns "Request payload too large." before validating any field
\* and without issuing a statement.
\* ------------------------------------------------------------------------
C2_OversizedPayloadRejected ==
    (last.op \in InvoiceOps /\ last.id \notin MalformedIds /\ Oversized(last.form))
    => /\ ~validatePayloadSize(last.form, DefaultMaxSizeKB)
       /\ last.result = Return("Request payload too large.", NoErrors)
       /\ NoMutation

\* ------------------------------------------------------------------------
\* C3 as stated: every create or update submission with an offending field
\* (amount not a number, not above 0 or above 1,000,000; customerId missing
\* or empty; status missing or not pending/paid) is answered with messages
\* for each offending field, and nothing is mutated.
\* ------------------------------------------------------------------------
FieldErrorsReturned ==
    /\ last.result.kind = "return"
    /\ DOMAIN last.result.errors = OffendingFields(last.form)
    /\ \A f \in OffendingFields(last.form) : Len(last.result.errors[f]) >= 1
    /\ NoMutation

C3_AsStated ==
    (last.op \in InvoiceOps /\ OffendingFields(last.form) # {})
    => FieldErrorsReturned

\* C3, amended: every create submission, and every update submission whose
\* id is a well-formed UUID, that has an offending field is answered with
\* messages for exactly the offending fields, and nothing is mutated: no
\* statement, no table change, no cache invalidation, no redirect.
C3_FieldErrorsWhenIdWellFormed ==
    (last.op \in InvoiceOps /\ OffendingFields(last.form) # {}
        /\ last.id \notin MalformedIds)
    => FieldErrorsReturned

\* an update of an existing row that submits the amount 0
C3_Witness ==
    /\ last.op = "updateInvoice"
    /\ last.id \in DOMAIN last.before
    /\ OffendingFields(last.form) = {"amount"}
    /\ FormGet(last.form, "amount") = Some(<<"0">>)
    /\ last.result.errors["amount"] = <<"Please enter an amount greater than $0.">>

\* ------------------------------------------------------------------------
\* C4: every amount in the table is a whole number of cents between 1 and
\* 100,000,000, and the amount a create or update has just written is the
\* submitted dollar amount times 100, rounded to the nearest cent.
\* ------------------------------------------------------------------------
\* x * 100 in exact arithmetic, rounded half up to a whole number, for a
\* finite x >= 0
WholeCents(x) ==
    IF x.q >= 0 THEN BigShiftLeft(BigMulSmall(x.m, 100), x.q)
    ELSE BigDivSmall(BigAdd(BigShiftRight(BigMulSmall(x.m, 100), -x.q - 1), <<1>>), 2)

RoundedCents(x) == Nearest(FALSE, WholeCents(x), <<1>>, 0)

\* the row the statement just executed wrote, if it wrote one
WrittenIds ==
    IF ~(Executed /\ last.dbOk) THEN {}
    ELSE IF last.op = "createInvoice" THEN DOMAIN last.after \ DOMAIN last.before
    ELSE IF last.op = "updateInvoice" THEN {last.id} \cap DOMAIN last.after
    ELSE {}

C4_StoredAmountIsRoundedCents ==
    /\ \A id \in DOMAIN invoices :
          /\ IsInteger(invoices[id].amount)
          /\ ~Lte(invoices[id].amount, 0)
          /\ Lte(invoices[id].amount, MaxAmount * 100)
    /\ \A id \in WrittenIds : last.after[id].amount = RoundedCents(Dollars(last.form))

\* ------------------------------------------------------------------------
\* C5: a create submission that passes every validation of its handler and
\* whose statement the database carries out makes exactly the calls INSERT,
\* revalidatePath and redirect (both for /dashboard/invoices) in that
\* order, and its INSERT adds exactly one row to the table as it is when
\* the statement is executed, whatever other requests did to the table
\* since the handler was entered: a row holding the submitted customer and
\* status, the submitted amount as a whole number of cents and the current
\* day: the day the handler computed before the INSERT (section 4.2), which
\* is a day on which the request was being served; and no create
\* invalidates the cache or redirects unless its INSERT was carried out
\* before.  This is stated of both definitions of createInvoice.
\* ------------------------------------------------------------------------
CreateOps == {"createInvoice", "createInvoiceEarlier"}

DateOfDay(d) == <<"2", "0", "2", "5", "-", "0", "1", "-">> \o TwoDigits(d)

\* the submission passes the validation the handler applies: the bounds and
\* the size limit for the later definition; for the earlier one a customer,
\* an amount that is a number and a status of the enumeration
PassesValidation(op, form) ==
    IF op = "createInvoice" THEN OffendingFields(form) = {} /\ ~Oversized(form)
    ELSE /\ "customerId" \in DOMAIN form
         /\ ~IsNaN(Dollars(form))
         /\ ~StatusOffends(form)

\* the dollars x as cents: x * 100 in exact arithmetic, rounded to a whole
\* number (halves away from zero)
Cents(x) ==
    IF x.cls = "num" /\ x.m # <<>> THEN Nearest(x.neg, WholeCents(x), <<1>>, 0)
    ELSE x

InsertedRow(row, form) ==
    /\ row.customer_id = form["customerId"]
    /\ row.status = form["status"]
    /\ row.amount = Cents(Dollars(form))

OneRowAdded ==
    /\ DOMAIN last.before \subseteq DOMAIN last.after
    /\ Cardinality(DOMAIN last.after \ DOMAIN last.before) = 1
    /\ \A id \in DOMAIN last.before : last.after[id] = last.before[id]
    /\ \A id \in DOMAIN last.after \ DOMAIN last.before :
          /\ InsertedRow(last.after[id], last.form)
          /\ last.now \in 1..day
          /\ last.after[id].date = DateOfDay(last.now)

C5_CreateInsertsThenInvalidatesThenRedirects ==
    last.op \in CreateOps
    => /\ (last.dbOk /\ Executed)
          => /\ last.trace = <<Call("sql", "INSERT")>>
             /\ OneRowAdded
             /\ invoices = last.after
       /\ (PassesValidation(last.op, last.form) /\ last.dbOk /\ Ended)
          => /\ last.trace = <<Call("sql", "INSERT"),
                               Call("revalidatePath", "/dashboard/invoices"),
                               Call("redirect", "/dashboard/invoices")>>
             /\ last.result = Redirected("/dashboard/invoices")
             /\ invoices = last.before
       /\ \A i \in Calls(last.trace, "revalidatePath") \cup Calls(last.trace, "redirect") :
             /\ Ended
             /\ last.dbOk
             /\ \E j \in 1..(i - 1) : last.trace[j] = Call("sql", "INSERT")
             /\ \A j \in Calls(last.trace, "redirect") : i <= j

\* the INSERT of a valid create of 0.07 dollars is carried out while
\* another request is in flight: one row is added, but the row holds
\* 7.000000000000001, which is no whole number of cents; the request read
\* the clock the day before its INSERT was executed
C5_Witness ==
    /\ last.op = "createInvoice"
    /\ Executed
    /\ last.dbOk
    /\ last.form = MakeForm(Some(Customer1), Some(<<"0", ".", "0", "7">>),
                            Some(PENDING), Null)
    /\ last.trace = <<Call("sql", "INSERT")>>
    /\ last.now < day
    /\ BagCardinality(inFlight) = 2
    /\ \E id \in DOMAIN last.after \ DOMAIN last.before :
          /\ ~IsInteger(last.after[id].amount)
          /\ last.after[id].amount # FromInteger(7)
          /\ last.after[id].date = DateOfDay(last.now)

\* ------------------------------------------------------------------------
\* C6: when the statement of createInvoice, updateInvoice or deleteInvoice
\* fails, the table is left as it was when the statement was issued, and
\* the handler, when it ends, returns its fixed "Database Error: ..."
\* message and nothing else, has issued the statement once, and has neither
\* invalidated the cache nor redirected.
\* ------------------------------------------------------------------------
DatabaseErrorMessage(op) ==
    IF op = "createInvoice" THEN "Database Error: Failed to Create Invoice."
    ELSE IF op = "updateInvoice" THEN "Database Error: Failed to Update Invoice."
    ELSE "Database Error: Failed to Delete Invoice."

C6_DatabaseFailureReported ==
    (last.op \in {"createInvoice", "updateInvoice", "deleteInvoice"} /\ ~last.dbOk)
    => /\ Ended => last.result = Return(DatabaseErrorMessage(last.op), NoErrors)
       /\ Len(last.trace) = 1
       /\ Calls(last.trace, "sql") = {1}
       /\ last.after = last.before
       /\ invoices = last.before

\* a valid create has ended whose INSERT the database refused
C6_Witness ==
    /\ last.op = "createInvoice"
    /\ Ended
    /\ ~last.dbOk
    /\ OffendingFields(last.form) = {}
    /\ last.result.message = "Database Error: Failed to Create Invoice."

\* ------------------------------------------------------------------------
\* C7: the DELETE of deleteInvoice with a well-formed id that no row has
\* when the statement is executed, the database carrying it out, leaves the
\* table as it was; the handler, when it ends, has still invalidated the
\* cache and returns "Deleted Invoice.", whether or not a row had the id;
\* and every DELETE that the database carried out leaves a table that
\* deleting the same id again leaves as it is.
\* ------------------------------------------------------------------------
C7_DeleteOfAbsentIdSucceeds ==
    (last.op = "deleteInvoice" /\ last.id \notin MalformedIds /\ last.dbOk)
    => /\ (Executed /\ last.id \notin DOMAIN last.before)
          => /\ last.trace = <<Call("sql", "DELETE")>>
             /\ last.after = last.before
             /\ invoices = last.before
       /\ Ended
          => /\ last.result = Return("Deleted Invoice.", NoErrors)
             /\ last.trace = <<Call("sql", "DELETE"),
                               Call("revalidatePath", "/dashboard/invoices")>>
             /\ invoices = last.before
       /\ Executed => deleteInvoice(last.after, last.id, TRUE).table = last.after

\* the delete of an id that no row has ends on a table that has rows
C7_Witness ==
    /\ last.op = "deleteInvoice"
    /\ Ended
    /\ last.id = UnknownId
    /\ last.dbOk
    /\ DOMAIN last.before # {}
    /\ last.result.message = "Deleted Invoice."

\* ------------------------------------------------------------------------
\* C8: authenticate returns "Invalid input format." without calling signIn
\* when the e-mail or password is malformed; otherwise it calls signIn once
\* and returns "Invalid credentials." for a CredentialsSignin AuthError,
\* "Something went wrong." for any other AuthError, passes any other error
\* on to its caller, and returns nothing when signIn returns.
\* ------------------------------------------------------------------------
ValidEmail ==
    <<"u", "s", "e", "r", "@", "n", "e", "x", "t", "m", "a", "i", "l", ".", "c", "o", "m">>

WellShaped(form) ==
    /\ "email" \in DOMAIN form
    /\ form["email"] = ValidEmail
    /\ "password" \in DOMAIN form
    /\ Len(form["password"]) >= 6
    /\ Len(form["password"]) <= 255

C8_AuthenticateOutcome ==
    last.op = "authenticate"
    => /\ last.after = last.before
       /\ IF ~WellShaped(last.form)
          THEN /\ last.result = Return("Invalid input format.", NoErrors)
               /\ last.trace = <<>>
          ELSE /\ last.trace = <<Call("signIn", "credentials")>>
               /\ (~last.signIn.threw) => last.result = ReturnUndefined
               /\ (last.signIn.threw /\ last.signIn.authError
                       /\ last.signIn.type = "CredentialsSignin")
                  => last.result = Return("Invalid credentials.", NoErrors)
               /\ (last.signIn.threw /\ last.signIn.authError
                       /\ last.signIn.type # "CredentialsSignin")
                  => last.result = Return("Something went wrong.", NoErrors)
               /\ (last.signIn.threw /\ ~last.signIn.authError)
                  => last.result = Throw(last.signIn.type)

\* well-shaped credentials that the provider reports as an AuthError other
\* than CredentialsSignin
C8_Witness ==
    /\ last.op = "authenticate"
    /\ WellShaped(last.form)
    /\ last.signIn.threw /\ last.signIn.authError
    /\ last.signIn.type = "CallbackRouteError"
    /\ last.result.message = "Something went wrong."

\* ------------------------------------------------------------------------
\* C9: whichever of deleteInvoice and deleteInvoiceAction has just taken a
\* step, the other one, run with the same id and the same database outcome,
\* issues the same statement, which leaves the same table when executed on
\* the same table, and has made the same calls when it ends;
\* deleteInvoiceAction throws exactly when the id is malformed or the
\* statement fails, which is exactly when deleteInvoice returns a failure
\* message, and it throws that message.
\* ------------------------------------------------------------------------
LastOutcome == Outcome(last.after, last.trace, last.result)

\* the statement of the one did what the statement of the other does
SameStatement(executed, other) ==
    /\ executed.table = other.table
    /\ executed.trace = SubSeq(other.trace, 1, 1)

SameDelete(returning, throwing) ==
    /\ returning.trace = throwing.trace
    /\ returning.result.kind = "return"
    /\ (throwing.result.kind = "throw") = (returning.result.message # "Deleted Invoice.")
    /\ (throwing.result.kind = "throw") = (last.id \in MalformedIds \/ ~last.dbOk)
    /\ throwing.result.kind = "throw" => throwing.result.message = returning.result.message
    /\ throwing.result.kind # "throw" => throwing.result = ReturnUndefined

C9_DeleteVariantsAgree ==
    /\ (last.op = "deleteInvoice" /\ Executed)
       => SameStatement(LastOutcome, deleteInvoiceAction(last.before, last.id, last.dbOk))
    /\ (last.op = "deleteInvoiceAction" /\ Executed)
       => SameStatement(LastOutcome, deleteInvoice(last.before, last.id, last.dbOk))
    /\ (last.op = "deleteInvoice" /\ Ended)
       => SameDelete(LastOutcome, deleteInvoiceAction(last.before, last.id, last.dbOk))
    /\ (last.op = "deleteInvoiceAction" /\ Ended)
       => SameDelete(deleteInvoice(last.before, last.id, last.dbOk), LastOutcome)

\* the DELETE of deleteInvoiceAction has removed a row that was added after
\* the application started, as the DELETE of deleteInvoice would have
C9_Witness ==
    /\ last.op = "deleteInvoiceAction"
    /\ Executed
    /\ last.id \in DOMAIN last.before \ {SeedId}
    /\ last.id \notin DOMAIN last.after
    /\ last.after = deleteInvoice(last.before, last.id, last.dbOk).table
    /\ last.trace = <<Call("sql", "DELETE")>>

\* ------------------------------------------------------------------------
\* C10: the UPDATE of an updateInvoice that succeeds leaves the set of ids,
\* every row with another id, and the date of the row with the supplied id
\* as they were when the statement was executed, and sets that row's
\* customer_id, amount and status to the submitted ones; when no row has
\* the id then (another request may have deleted it since the handler was
\* entered) the table is unchanged; in both cases the handler, when it
\* ends, has invalidated the cache and redirects.
\* ------------------------------------------------------------------------
BigDistance(a, b) == IF BigCmp(a, b) >= 0 THEN BigSub(a, b) ELSE BigSub(b, a)

\* |r - 100 x| <= 100 x / 2^53, both written in units of 2^c
WithinRounding(r, x, c) ==
    BigCmp(BigShiftLeft(BigDistance(BigShiftLeft(r.m, r.q - c),
                                    BigShiftLeft(BigMulSmall(x.m, 100), x.q - c)),
                        MantissaBits),
           BigShiftLeft(BigMulSmall(x.m, 100), x.q - c)) <= 0

\* r is x times 100, up to the rounding of the last bit of a double
IsTimes100(r, x) ==
    /\ r.cls = "num" /\ x.cls = "num" /\ r.neg = x.neg
    /\ WithinRounding(r, x, IF r.q < x.q THEN r.q ELSE x.q)

\* the columns an update sets hold the submitted values (whether the amount
\* is a whole number of cents is C4)
SubmittedRow(row, form) ==
    /\ row.customer_id = form["customerId"]
    /\ row.status = form["status"]
    /\ IsTimes100(row.amount, Dollars(form))

C10_UpdateTouchesOnlyItsRow ==
    (last.op = "updateInvoice" /\ last.dbOk /\ Calls(last.trace, "sql") # {})
    => /\ DOMAIN last.after = DOMAIN last.before
       /\ \A id \in DOMAIN last.before \ {last.id} : last.after[id] = last.before[id]
       /\ (Executed /\ last.id \in DOMAIN last.before)
          => /\ last.after[last.id].date = last.before[last.id].date
             /\ SubmittedRow(last.after[last.id], last.form)
       /\ last.id \notin DOMAIN last.before => last.after = last.before
       /\ Executed => last.trace = <<Call("sql", "UPDATE")>>
       /\ Ended
          => /\ last.trace = <<Call("sql", "UPDATE"),
                               Call("revalidatePath", "/dashboard/invoices"),
                               Call("redirect", "/dashboard/invoices")>>
             /\ last.result = Redirected("/dashboard/invoices")
       /\ invoices = last.after

\* an UPDATE that changes one of two rows, the other row holding neither
\* the new customer nor the new status
C10_Witness ==
    /\ last.op = "updateInvoice"
    /\ Executed
    /\ last.dbOk
    /\ last.id \in DOMAIN last.before
    /\ Cardinality(DOMAIN last.before) >= 2
    /\ last.after[last.id].customer_id # last.before[last.id].customer_id
    /\ last.after[last.id].status # last.before[last.id].status
    /\ last.after[last.id].date # DateOfDay(day)
    /\ \E id \in DOMAIN last.before \ {last.id} :
          /\ last.after[id].customer_id # last.after[last.id].customer_id
          /\ last.after[id].status # last.after[last.id].status
====
